---- MODULE Spec2Model ----
(***************************************************************************)
(* gemini-cli-obs: the observability MCP server's store (sessions, events, *)
(* budget_config) and its tool handlers, as a state machine.               *)
(*                                                                         *)
(* Conventions                                                             *)
(*   - SQL NULL / JS undefined of a TEXT column is NullStr, of a numeric   *)
(*     column NullNum (all real numeric values are non-negative).          *)
(*   - ISO-8601 timestamps are the integer tick they denote; toISOString   *)
(*     and new Date(iso).getTime() are exact to the millisecond.           *)
(*   - USD amounts are integers in microdollars (roundUsd keeps 6          *)
(*     decimals); prices are in 1e-4 USD per 1M tokens.                    *)
(*   - label and metadata are passed through verbatim by the handlers and  *)
(*     read by no computation; they are left out of the rows.              *)
(***************************************************************************)
EXTENDS Integers, Sequences, FiniteSets, TLC

\* ------------------------------------------------------------------ bounds
MaxSessions == 2
MaxEvents == 3
MaxBudgetEvents == 4
MaxLogEvents == 4
MaxClock == 1
MaxSamples == 5
MaxDuration == 2
MaxRamp == 40
MaxRows == 2
MaxPairRows == 2
MaxModelRows == 4

\* ------------------------------------------------------- program constants
NullStr == "<null>"
NullNum == -1
TicksPerDay == 1
PriceProInput == 750
PriceProOutput == 3000
PriceFlashInput == 375
PriceFlashOutput == 1500
CharsPerToken == 4
SeedAlertThresholdPct == 80

EventTypes ==
  {"SESSION_START", "SESSION_END", "TOOL_START", "TOOL_END",
   "LLM_REQUEST", "LLM_RESPONSE", "ERROR", "BUDGET_WARNING"}

\* JS truthiness of an optional string: undefined/null and "" are falsy.
Truthy(s) == s # NullStr /\ s # ""

\* UTC calendar date of a timestamp: date(started_at), toISOString().slice(0,10)
DateOf(t) == t \div TicksPerDay

\* --------------------------------------------------------------- variables
\* calc holds one application of a pure function of the analytics engine:
\* its name, its arguments and its result.
VARIABLES sessions, events, budget, clock, last, calc

vars == <<sessions, events, budget, clock, last, calc>>

\* The store as one value: what a handler reads and what it leaves behind.
Db == [sessions |-> sessions, events |-> events, budget |-> budget]

\* ------------------------------------------------------------ sessions.ts
HasSession(db, id) == \E i \in 1..Len(db.sessions) : db.sessions[i].id = id

getById(db, id) ==
  db.sessions[CHOOSE i \in 1..Len(db.sessions) : db.sessions[i].id = id]

sessionsInsert(db, id, model, startedAt) ==
  [db EXCEPT !.sessions =
     Append(@, [id |-> id, model |-> model,
                started_at |-> startedAt, ended_at |-> NullNum])]

\* Mutant: the UPDATE sets the wrong timestamp column.
sessionsEnd_WrongColumn(db, id, endedAt) ==
  [db EXCEPT !.sessions =
     [i \in 1..Len(@) |->
        IF @[i].id = id
        THEN [@[i] EXCEPT !.started_at = endedAt, !.ended_at = endedAt]
        ELSE @[i]]]

sessionsEnd(db, id, endedAt) ==
  [db EXCEPT !.sessions =
     [i \in 1..Len(@) |->
        IF @[i].id = id THEN [@[i] EXCEPT !.ended_at = endedAt] ELSE @[i]]]

updateModel(db, id, model) ==
  [db EXCEPT !.sessions =
     [i \in 1..Len(@) |->
        IF @[i].id = id THEN [@[i] EXCEPT !.model = model] ELSE @[i]]]

\* -------------------------------------------------------------- events.ts
generateEventId(db) == Len(db.events) + 1

generateSessionId(db) == Len(db.sessions) + 1

\* Mutant: INSERT OR REPLACE, the new row taking the place of the latest one.
eventsInsert_Replace(db, ev) ==
  [db EXCEPT !.events =
     IF @ = <<>> THEN <<ev>> ELSE SubSeq(@, 1, Len(@) - 1) \o <<ev>>]

eventsInsert(db, ev) == [db EXCEPT !.events = Append(@, ev)]

NewEvent(db, sid, type, tool, model, pc, rc, dur, err, now) ==
  [id |-> generateEventId(db), session_id |-> sid, event_type |-> type,
   tool_name |-> tool, model |-> model, prompt_chars |-> pc,
   response_chars |-> rc, duration_ms |-> dur, error_message |-> err,
   recorded_at |-> now]

\* Mutant: the cost query returns the session's latest LLM row only
\* (ORDER BY recorded_at DESC LIMIT 1).
llmChars_LatestOnly(db, sid) ==
  LET rows == SelectSeq(db.events,
                LAMBDA e : e.session_id = sid
                           /\ e.event_type \in {"LLM_REQUEST", "LLM_RESPONSE"})
  IN IF rows = <<>> THEN <<>> ELSE <<rows[Len(rows)]>>

\* Mutant: the cost query also selects TOOL_END rows.
llmChars_WithToolEnd(db, sid) ==
  SelectSeq(db.events,
            LAMBDA e : e.session_id = sid
                       /\ e.event_type \in {"LLM_REQUEST", "LLM_RESPONSE", "TOOL_END"})

llmChars(db, sid) ==
  SelectSeq(db.events,
            LAMBDA e : e.session_id = sid
                       /\ e.event_type \in {"LLM_REQUEST", "LLM_RESPONSE"})

\* Sum of a nullable numeric column over rows: SUM(col) / `+= row.col ?? 0`.
RECURSIVE SumPrompt(_)
SumPrompt(rows) ==
  IF rows = <<>> THEN 0
  ELSE (IF Head(rows).prompt_chars = NullNum THEN 0 ELSE Head(rows).prompt_chars)
       + SumPrompt(Tail(rows))

RECURSIVE SumResponse(_)
SumResponse(rows) ==
  IF rows = <<>> THEN 0
  ELSE (IF Head(rows).response_chars = NullNum THEN 0 ELSE Head(rows).response_chars)
       + SumResponse(Tail(rows))

dailyLlmChars(db, today) ==
  LET rows == SelectSeq(db.events,
                LAMBDA e : e.event_type \in {"LLM_REQUEST", "LLM_RESPONSE"}
                           /\ HasSession(db, e.session_id)
                           /\ DateOf(getById(db, e.session_id).started_at) = DateOf(today))
  IN [promptChars |-> SumPrompt(rows), responseChars |-> SumResponse(rows)]

\* ---------------------------------------------------------------- cost.ts
\* xs.reduce((acc, v) => acc + v, 0)
RECURSIVE SumSeq(_)
SumSeq(xs) == IF xs = <<>> THEN 0 ELSE Head(xs) + SumSeq(Tail(xs))

\* model.includes('flash'), over the identifiers the model draws from
IncludesFlash(model) == model \in {"gemini-2.5-flash", "gemini-2.0-flash-lite"}

pricingFor(model) ==
  IF ~Truthy(model) THEN [inputPer1M |-> PriceProInput, outputPer1M |-> PriceProOutput]
  ELSE IF IncludesFlash(model)
       THEN [inputPer1M |-> PriceFlashInput, outputPer1M |-> PriceFlashOutput]
       ELSE [inputPer1M |-> PriceProInput, outputPer1M |-> PriceProOutput]

estimateTokens(chars) == (chars + CharsPerToken - 1) \div CharsPerToken

\* Math.round(n / d) for n >= 0, d > 0 (half rounds up)
RoundDiv(n, d) == (2 * n + d) \div (2 * d)

\* modelCounts: the Map's keys in insertion order, then its counts
RECURSIVE ModelKeys(_, _)
ModelKeys(rows, seen) ==
  IF rows = <<>> THEN seen
  ELSE LET m == Head(rows).model IN
       IF Truthy(m) /\ ~(\E i \in 1..Len(seen) : seen[i] = m)
       THEN ModelKeys(Tail(rows), Append(seen, m))
       ELSE ModelKeys(Tail(rows), seen)

ModelCount(rows, m) == Len(SelectSeq(rows, LAMBDA r : r.model = m))

\* Mutant: the comparison is count >= maxCount, so a later key wins a tie.
RECURSIVE PickDominant_LastWins(_, _, _, _)
PickDominant_LastWins(keys, rows, maxCount, dominantModel) ==
  IF keys = <<>> THEN dominantModel
  ELSE IF ModelCount(rows, Head(keys)) >= maxCount
       THEN PickDominant_LastWins(Tail(keys), rows,
                                  ModelCount(rows, Head(keys)), Head(keys))
       ELSE PickDominant_LastWins(Tail(keys), rows, maxCount, dominantModel)

\* for (const [model, count] of modelCounts.entries()) if (count > maxCount) ...
RECURSIVE PickDominant(_, _, _, _)
PickDominant(keys, rows, maxCount, dominantModel) ==
  IF keys = <<>> THEN dominantModel
  ELSE IF ModelCount(rows, Head(keys)) > maxCount
       THEN PickDominant(Tail(keys), rows, ModelCount(rows, Head(keys)), Head(keys))
       ELSE PickDominant(Tail(keys), rows, maxCount, dominantModel)

\* Mutant: the pricing is that of the latest row's model, not of the most
\* used one.
computeCost_PriceByLastRow(llmRows) ==
  LET totalPromptChars == SumPrompt(llmRows)
      totalResponseChars == SumResponse(llmRows)
      dominantModel == PickDominant(ModelKeys(llmRows, <<>>), llmRows, 0, NullStr)
      pricing == pricingFor(IF llmRows = <<>> THEN NullStr
                            ELSE llmRows[Len(llmRows)].model)
      inputTokens == estimateTokens(totalPromptChars)
      outputTokens == estimateTokens(totalResponseChars)
  IN [estimatedInputTokens |-> inputTokens,
      estimatedOutputTokens |-> outputTokens,
      estimatedTotalTokens |-> inputTokens + outputTokens,
      inputCostUsd |-> RoundDiv(inputTokens * pricing.inputPer1M, 10000),
      outputCostUsd |-> RoundDiv(outputTokens * pricing.outputPer1M, 10000),
      totalCostUsd |-> RoundDiv(inputTokens * pricing.inputPer1M
                                + outputTokens * pricing.outputPer1M, 10000),
      modelUsed |-> dominantModel]

\* Mutant: tokens are estimated row by row and then added up.
computeCost_PerRowTokens(llmRows) ==
  LET col(c) == IF c = NullNum THEN 0 ELSE c
      inputTokens ==
        SumSeq([i \in 1..Len(llmRows) |-> estimateTokens(col(llmRows[i].prompt_chars))])
      outputTokens ==
        SumSeq([i \in 1..Len(llmRows) |-> estimateTokens(col(llmRows[i].response_chars))])
      dominantModel == PickDominant(ModelKeys(llmRows, <<>>), llmRows, 0, NullStr)
      pricing == pricingFor(dominantModel)
  IN [estimatedInputTokens |-> inputTokens,
      estimatedOutputTokens |-> outputTokens,
      estimatedTotalTokens |-> inputTokens + outputTokens,
      inputCostUsd |-> RoundDiv(inputTokens * pricing.inputPer1M, 10000),
      outputCostUsd |-> RoundDiv(outputTokens * pricing.outputPer1M, 10000),
      totalCostUsd |-> RoundDiv(inputTokens * pricing.inputPer1M
                                + outputTokens * pricing.outputPer1M, 10000),
      modelUsed |-> dominantModel]

\* USD figures in microdollars; a price p is p * 1e-4 USD per 1M tokens, so
\* tokens / 1e6 * price is tokens * p / 10000 microdollars.
computeCost(llmRows) ==
  LET totalPromptChars == SumPrompt(llmRows)
      totalResponseChars == SumResponse(llmRows)
      dominantModel == PickDominant(ModelKeys(llmRows, <<>>), llmRows, 0, NullStr)
      pricing == pricingFor(dominantModel)
      inputTokens == estimateTokens(totalPromptChars)
      outputTokens == estimateTokens(totalResponseChars)
  IN [estimatedInputTokens |-> inputTokens,
      estimatedOutputTokens |-> outputTokens,
      estimatedTotalTokens |-> inputTokens + outputTokens,
      inputCostUsd |-> RoundDiv(inputTokens * pricing.inputPer1M, 10000),
      outputCostUsd |-> RoundDiv(outputTokens * pricing.outputPer1M, 10000),
      totalCostUsd |-> RoundDiv(inputTokens * pricing.inputPer1M
                                + outputTokens * pricing.outputPer1M, 10000),
      modelUsed |-> dominantModel]

\* ------------------------------------------------- record_event.ts: budget
\* Mutant: a cap of 0 is taken as a cap of zero dollars, not as "disabled".
checkBudget_ZeroIsCap(db, sessionId, today, fail) ==
  LET sessionCost == computeCost(llmChars(db, sessionId)) IN
  IF sessionCost.totalCostUsd * 100
       >= db.budget.max_per_session_usd * db.budget.alert_threshold_pct
  THEN [threw |-> FALSE, warning |-> "session"]
  ELSE [threw |-> FALSE, warning |-> "none"]

\* A store call named `fail` throws when it is reached; "none" never throws.
\* checkBudget's result: threw, or the warning it returns ("none" for null).
checkBudget(db, sessionId, today, fail) ==
  IF fail = "budget.get" THEN [threw |-> TRUE, warning |-> "none"]
  ELSE LET config == db.budget IN
  IF config.max_per_session_usd <= 0 /\ config.max_per_day_usd <= 0
  THEN [threw |-> FALSE, warning |-> "none"]
  ELSE IF fail = "events.llmChars" THEN [threw |-> TRUE, warning |-> "none"]
  ELSE LET sessionCost == computeCost(llmChars(db, sessionId)) IN
  IF config.max_per_session_usd > 0
     /\ sessionCost.totalCostUsd * 100
          >= config.max_per_session_usd * config.alert_threshold_pct
  THEN [threw |-> FALSE, warning |-> "session"]
  ELSE IF config.max_per_day_usd > 0
  THEN IF fail = "events.dailyLlmChars" THEN [threw |-> TRUE, warning |-> "none"]
       ELSE LET dailyChars == dailyLlmChars(db, today)
                dailyCost == computeCost(
                  << [prompt_chars |-> dailyChars.promptChars,
                      response_chars |-> NullNum, model |-> NullStr],
                     [prompt_chars |-> NullNum,
                      response_chars |-> dailyChars.responseChars, model |-> NullStr] >>)
            IN IF dailyCost.totalCostUsd * 100
                    >= config.max_per_day_usd * config.alert_threshold_pct
               THEN [threw |-> FALSE, warning |-> "daily"]
               ELSE [threw |-> FALSE, warning |-> "none"]
  ELSE [threw |-> FALSE, warning |-> "none"]

\* ------------------------------------------------------------- client.ts
\* A closure's run is [db, threw]. better-sqlite3 rolls the transaction back
\* when the closure throws and rethrows; otherwise it commits.
\* Mutant: the closure runs outside a transaction, nothing is rolled back.
transaction_NoRollback(db, run) == run

transaction(db, run) == IF run.threw THEN [db |-> db, threw |-> TRUE] ELSE run

\* ------------------------------------------------------- handler results
\* A handler's run is [db, out]: the store it leaves and what the caller gets.
\* wrapHandler turns a throw into an isError result; the store stays as the
\* throwing handler left it.
Out(kind, warning) ==
  [kind |-> kind, threw |-> FALSE, warning |-> warning, ids |-> <<>>]

wrapHandler(db) ==
  [db |-> db,
   out |-> [kind |-> "error", threw |-> TRUE, warning |-> "none", ids |-> <<>>]]

\* ------------------------------------------------------ start_session.ts
handleStartSession(db, model, now, fail) ==
  LET sessionId == generateSessionId(db)
      body ==
        IF fail = "sessions.insert" THEN [db |-> db, threw |-> TRUE]
        ELSE LET db1 == sessionsInsert(db, sessionId, model, now) IN
        IF fail = "events.insert" THEN [db |-> db1, threw |-> TRUE]
        ELSE [db |-> eventsInsert(db1,
                       NewEvent(db1, sessionId, "SESSION_START", NullStr, model,
                                NullNum, NullNum, NullNum, NullStr, now)),
              threw |-> FALSE]
      tx == transaction(db, body)
  IN IF tx.threw THEN wrapHandler(tx.db)
     ELSE [db |-> tx.db, out |-> Out("started", "none")]

\* ------------------------------------------------------- record_event.ts
\* Mutant: a fired warning rejects the write: the BUDGET_WARNING is logged in
\* place of the event that triggered it.
handleRecordEvent_WarningBlocks(db, input, now, fail) ==
  IF fail = "sessions.getById" THEN wrapHandler(db)
  ELSE IF ~HasSession(db, input.session_id)
  THEN [db |-> db, out |-> Out("not_found", "none")]
  ELSE LET session == getById(db, input.session_id) IN
  IF fail = "events.insert" THEN wrapHandler(db)
  ELSE LET db1 == eventsInsert(db,
                    NewEvent(db, input.session_id, input.event_type,
                             input.tool_name, input.model, input.prompt_chars,
                             input.response_chars, input.duration_ms,
                             input.error_message, now))
           backfill == Truthy(input.model) /\ ~Truthy(session.model)
       IN
  IF backfill /\ fail = "sessions.updateModel" THEN wrapHandler(db1)
  ELSE LET db2 == IF backfill
                  THEN updateModel(db1, input.session_id, input.model)
                  ELSE db1 IN
  IF input.event_type \in {"LLM_RESPONSE", "TOOL_END"}
  THEN LET budgetWarning == checkBudget(db2, input.session_id, now, fail) IN
       IF budgetWarning.threw THEN wrapHandler(db2)
       ELSE IF budgetWarning.warning # "none"
       THEN IF fail = "events.insertWarning" THEN wrapHandler(db2)
            ELSE [db |-> eventsInsert([db2 EXCEPT !.events = db.events],
                           NewEvent(db, input.session_id, "BUDGET_WARNING",
                                    NullStr, NullStr, NullNum, NullNum, NullNum,
                                    NullStr, now)),
                  out |-> Out("recorded", budgetWarning.warning)]
       ELSE [db |-> db2, out |-> Out("recorded", "none")]
  ELSE [db |-> db2, out |-> Out("recorded", "none")]

handleRecordEvent(db, input, now, fail) ==
  IF fail = "sessions.getById" THEN wrapHandler(db)
  ELSE IF ~HasSession(db, input.session_id)
  THEN [db |-> db, out |-> Out("not_found", "none")]
  ELSE LET session == getById(db, input.session_id) IN
  IF fail = "events.insert" THEN wrapHandler(db)
  ELSE LET db1 == eventsInsert(db,
                    NewEvent(db, input.session_id, input.event_type,
                             input.tool_name, input.model, input.prompt_chars,
                             input.response_chars, input.duration_ms,
                             input.error_message, now))
           backfill == Truthy(input.model) /\ ~Truthy(session.model)
       IN
  IF backfill /\ fail = "sessions.updateModel" THEN wrapHandler(db1)
  ELSE LET db2 == IF backfill
                  THEN updateModel(db1, input.session_id, input.model)
                  ELSE db1 IN
  IF input.event_type \in {"LLM_RESPONSE", "TOOL_END"}
  THEN LET budgetWarning == checkBudget(db2, input.session_id, now, fail) IN
       IF budgetWarning.threw THEN wrapHandler(db2)
       ELSE IF budgetWarning.warning # "none"
       THEN IF fail = "events.insertWarning" THEN wrapHandler(db2)
            ELSE [db |-> eventsInsert(db2,
                           NewEvent(db2, input.session_id, "BUDGET_WARNING",
                                    NullStr, NullStr, NullNum, NullNum, NullNum,
                                    NullStr, now)),
                  out |-> Out("recorded", budgetWarning.warning)]
       ELSE [db |-> db2, out |-> Out("recorded", "none")]
  ELSE [db |-> db2, out |-> Out("recorded", "none")]

\* ---------------------------------------------------------- set_budget.ts
\* Mutant: the merge is `input.x || current.x`, so an explicit 0 keeps the
\* prior value.
handleSetBudget_OrMerge(db, input, fail) ==
  LET current == db.budget
      or(a, b) == IF a # NullNum /\ a # 0 THEN a ELSE b
  IN [db |-> [db EXCEPT !.budget =
                [max_per_session_usd |->
                   or(input.max_per_session_usd, current.max_per_session_usd),
                 max_per_day_usd |->
                   or(input.max_per_day_usd, current.max_per_day_usd),
                 alert_threshold_pct |->
                   or(input.alert_threshold_pct, current.alert_threshold_pct)]],
      out |-> Out("budget_updated", "none")]

\* input.x ?? current.x : only an omitted field (NullNum) keeps the prior value
handleSetBudget(db, input, fail) ==
  IF fail = "budget.get" THEN wrapHandler(db)
  ELSE LET current == db.budget
           next == [max_per_session_usd |->
                      IF input.max_per_session_usd # NullNum
                      THEN input.max_per_session_usd ELSE current.max_per_session_usd,
                    max_per_day_usd |->
                      IF input.max_per_day_usd # NullNum
                      THEN input.max_per_day_usd ELSE current.max_per_day_usd,
                    alert_threshold_pct |->
                      IF input.alert_threshold_pct # NullNum
                      THEN input.alert_threshold_pct ELSE current.alert_threshold_pct]
       IN
  IF fail = "budget.update" THEN wrapHandler(db)
  ELSE [db |-> [db EXCEPT !.budget = next], out |-> Out("budget_updated", "none")]

\* ------------------------------------------------- events.ts: read queries
\* Mutant: the query lacks event_type = 'TOOL_END'.
toolDurations_AnyEventType(db, sid) ==
  SelectSeq(db.events,
            LAMBDA e : e.session_id = sid
                       /\ e.tool_name # NullStr /\ e.duration_ms # NullNum)

\* Mutant: the query lacks duration_ms IS NOT NULL and reads a missing
\* duration as COALESCE(duration_ms, 0).
toolDurations_NullAsZero(db, sid) ==
  LET rows == SelectSeq(db.events,
                LAMBDA e : e.session_id = sid /\ e.event_type = "TOOL_END"
                           /\ e.tool_name # NullStr)
  IN [i \in 1..Len(rows) |->
        [rows[i] EXCEPT !.duration_ms =
           IF rows[i].duration_ms = NullNum THEN 0 ELSE rows[i].duration_ms]]

toolDurations(db, sid) ==
  SelectSeq(db.events,
            LAMBDA e : e.session_id = sid /\ e.event_type = "TOOL_END"
                       /\ e.tool_name # NullStr /\ e.duration_ms # NullNum)

\* rows carry error = 1 when error_message IS NOT NULL
allToolDurations(db) ==
  LET rows == SelectSeq(db.events,
                LAMBDA e : e.event_type = "TOOL_END"
                           /\ e.tool_name # NullStr /\ e.duration_ms # NullNum)
  IN [i \in 1..Len(rows) |->
        [tool_name |-> rows[i].tool_name, duration_ms |-> rows[i].duration_ms,
         error |-> IF rows[i].error_message # NullStr THEN 1 ELSE 0]]

\* Mutant: the WHERE clause lacks session_id = ?.
countByType_AllSessions(db, sid, type) ==
  Len(SelectSeq(db.events, LAMBDA e : e.event_type = type))

countByType(db, sid, type) ==
  Len(SelectSeq(db.events, LAMBDA e : e.session_id = sid /\ e.event_type = type))

errorCount(db, sid) ==
  Len(SelectSeq(db.events, LAMBDA e : e.session_id = sid /\ e.event_type = "ERROR"))

\* SELECT DISTINCT tool_name: each name once, in first-row order
RECURSIVE Distinct(_, _)
Distinct(names, seen) ==
  IF names = <<>> THEN seen
  ELSE IF \E i \in 1..Len(seen) : seen[i] = Head(names)
       THEN Distinct(Tail(names), seen)
       ELSE Distinct(Tail(names), Append(seen, Head(names)))

uniqueTools(db, sid) ==
  LET rows == SelectSeq(db.events,
                LAMBDA e : e.session_id = sid /\ e.tool_name # NullStr)
  IN Distinct([i \in 1..Len(rows) |-> rows[i].tool_name], <<>>)

\* ------------------------------------------------------------- latency.ts
\* [...durationsMs].sort((a, b) => a - b)
RECURSIVE InsertAsc(_, _)
InsertAsc(sorted, v) ==
  IF sorted = <<>> THEN <<v>>
  ELSE IF v < Head(sorted) THEN <<v>> \o sorted
       ELSE <<Head(sorted)>> \o InsertAsc(Tail(sorted), v)

RECURSIVE SortAsc(_)
SortAsc(xs) ==
  IF xs = <<>> THEN <<>> ELSE InsertAsc(SortAsc(Tail(xs)), Head(xs))

Max2(a, b) == IF a > b THEN a ELSE b
Min2(a, b) == IF a < b THEN a ELSE b

\* Mutant: the rank is Math.floor((p / 100) * n) - 1.
percentile_FloorRank(sorted, p) ==
  LET n == Len(sorted) IN
  IF n = 1 THEN sorted[1]
  ELSE LET rank == ((p * n) \div 100) - 1
           clamped == Max2(0, Min2(n - 1, rank))
       IN sorted[clamped + 1]

\* percentile(p) over the sorted samples (0-based rank, 1-based sequence)
percentile(sorted, p) ==
  LET n == Len(sorted) IN
  IF n = 1 THEN sorted[1]
  ELSE LET rank == ((p * n + 99) \div 100) - 1
           clamped == Max2(0, Min2(n - 1, rank))
       IN sorted[clamped + 1]

\* null (no data) is the record with sampleCount 0 and isNull TRUE
NoStats ==
  [isNull |-> TRUE, p50Ms |-> NullNum, p75Ms |-> NullNum, p95Ms |-> NullNum,
   p99Ms |-> NullNum, minMs |-> NullNum, maxMs |-> NullNum, meanMs |-> NullNum,
   sampleCount |-> 0]

computePercentiles(durationsMs) ==
  IF Len(durationsMs) = 0 THEN NoStats
  ELSE LET sorted == SortAsc(durationsMs)
           n == Len(sorted)
       IN [isNull |-> FALSE,
           p50Ms |-> percentile(sorted, 50), p75Ms |-> percentile(sorted, 75),
           p95Ms |-> percentile(sorted, 95), p99Ms |-> percentile(sorted, 99),
           minMs |-> sorted[1], maxMs |-> sorted[n],
           meanMs |-> RoundDiv(SumSeq(sorted), n), sampleCount |-> n]

\* results.sort((a, b) => b.callCount - a.callCount), a stable sort
RECURSIVE InsertByCalls(_, _)
InsertByCalls(sorted, r) ==
  IF sorted = <<>> THEN <<r>>
  ELSE IF r.callCount >= Head(sorted).callCount THEN <<r>> \o sorted
       ELSE <<Head(sorted)>> \o InsertByCalls(Tail(sorted), r)

RECURSIVE SortByCallsDesc(_)
SortByCallsDesc(rs) ==
  IF rs = <<>> THEN <<>> ELSE InsertByCalls(SortByCallsDesc(Tail(rs)), Head(rs))

\* errorRate = errors / callCount is kept as the pair (errorCount, callCount)
computeToolLatencyStats(rows) ==
  LET names == Distinct([i \in 1..Len(rows) |-> rows[i].tool_name], <<>>)
      bucket(t) == SelectSeq(rows, LAMBDA r : r.tool_name = t)
      results ==
        [k \in 1..Len(names) |->
           LET b == bucket(names[k]) IN
           [toolName |-> names[k],
            stats |-> computePercentiles([i \in 1..Len(b) |-> b[i].duration_ms]),
            errorCount |-> Len(SelectSeq(b, LAMBDA r : r.error # 0)),
            callCount |-> Len(b)]]
  IN SortByCallsDesc(results)

\* ---------------------------------------------------------- aggregator.ts
\* Mutant: with no ended_at, the duration is taken from the session's latest
\* SESSION_END event.
buildSessionSummary_DurationFromEvents(db, sessionId) ==
  LET session == getById(db, sessionId)
      rows == toolDurations(db, sessionId)
      allDurations == [i \in 1..Len(rows) |-> rows[i].duration_ms]
      allToolRows == [i \in 1..Len(rows) |->
                        [tool_name |-> rows[i].tool_name,
                         duration_ms |-> rows[i].duration_ms, error |-> 0]]
      ends == SelectSeq(db.events,
                LAMBDA e : e.session_id = sessionId /\ e.event_type = "SESSION_END")
  IN [sessionId |-> session.id,
      startedAt |-> session.started_at,
      endedAt |-> session.ended_at,
      durationMs |-> IF session.ended_at # NullNum
                     THEN session.ended_at - session.started_at
                     ELSE IF ends # <<>>
                     THEN ends[Len(ends)].recorded_at - session.started_at
                     ELSE NullNum,
      toolCallCount |-> countByType(db, sessionId, "TOOL_END"),
      llmRequestCount |-> countByType(db, sessionId, "LLM_REQUEST"),
      errorCount |-> errorCount(db, sessionId),
      uniqueToolsUsed |-> uniqueTools(db, sessionId),
      cost |-> computeCost(llmChars(db, sessionId)),
      overallLatency |-> computePercentiles(allDurations),
      toolBreakdown |-> computeToolLatencyStats(allToolRows)]

\* Called only for an existing session (the null return is HasSession false).
buildSessionSummary(db, sessionId) ==
  LET session == getById(db, sessionId)
      rows == toolDurations(db, sessionId)
      allDurations == [i \in 1..Len(rows) |-> rows[i].duration_ms]
      allToolRows == [i \in 1..Len(rows) |->
                        [tool_name |-> rows[i].tool_name,
                         duration_ms |-> rows[i].duration_ms, error |-> 0]]
  IN [sessionId |-> session.id,
      startedAt |-> session.started_at,
      endedAt |-> session.ended_at,
      durationMs |-> IF session.ended_at # NullNum
                     THEN session.ended_at - session.started_at ELSE NullNum,
      toolCallCount |-> countByType(db, sessionId, "TOOL_END"),
      llmRequestCount |-> countByType(db, sessionId, "LLM_REQUEST"),
      errorCount |-> errorCount(db, sessionId),
      uniqueToolsUsed |-> uniqueTools(db, sessionId),
      cost |-> computeCost(llmChars(db, sessionId)),
      overallLatency |-> computePercentiles(allDurations),
      toolBreakdown |-> computeToolLatencyStats(allToolRows)]

\* ------------------------------------------- aggregator.ts: the comparator
\* A nullable number whose values may be negative: null, or a value v.
NoValue == [isNull |-> TRUE, v |-> 0]

Value(v) == [isNull |-> FALSE, v |-> v]

\* An unrounded percentage, kept exact as the fraction num / den (den > 0).
Pct(num, den) == [num |-> num, den |-> den]

\* pct > k
PctGt(pct, k) == pct.num > k * pct.den

\* Math.round(pct * 10) / 10, as a whole number of tenths of a percent
RoundTenths(pct) == RoundDiv(10 * pct.num, pct.den)

\* Mutant: a rise from a baseline of 0 counts as an increase of 100%.
p95DeltaPct_ZeroBaselineIsFull(baseline, compare) ==
  IF baseline = 0 THEN (IF compare > 0 THEN Pct(100, 1) ELSE Pct(0, 1))
  ELSE Pct((compare - baseline) * 100, baseline)

\* Mutant: the ratio compare / baseline instead of the relative change.
p95DeltaPct_Ratio(baseline, compare) ==
  IF baseline = 0 THEN Pct(0, 1) ELSE Pct(compare * 100, baseline)

\* latency.ts
p95DeltaPct(baseline, compare) ==
  IF baseline = 0 THEN Pct(0, 1) ELSE Pct((compare - baseline) * 100, baseline)

\* Mutant: a delta of exactly 50% is critical (>= instead of >).
maybeFlag_InclusiveCritical(regressions, metric, baseVal, cmpVal, deltaPct) ==
  IF deltaPct.num >= 50 * deltaPct.den
  THEN Append(regressions,
              [metric |-> metric, baselineValue |-> baseVal, compareValue |-> cmpVal,
               deltaPct |-> deltaPct, severity |-> "critical"])
  ELSE IF PctGt(deltaPct, 20)
  THEN Append(regressions,
              [metric |-> metric, baselineValue |-> baseVal, compareValue |-> cmpVal,
               deltaPct |-> deltaPct, severity |-> "warning"])
  ELSE regressions

\* maybeFlag pushes onto `regressions`; here it returns the list it leaves.
maybeFlag(regressions, metric, baseVal, cmpVal, deltaPct) ==
  IF PctGt(deltaPct, 50)
  THEN Append(regressions,
              [metric |-> metric, baselineValue |-> baseVal, compareValue |-> cmpVal,
               deltaPct |-> deltaPct, severity |-> "critical"])
  ELSE IF PctGt(deltaPct, 20)
  THEN Append(regressions,
              [metric |-> metric, baselineValue |-> baseVal, compareValue |-> cmpVal,
               deltaPct |-> deltaPct, severity |-> "warning"])
  ELSE regressions

\* USD in microdollars, so roundUsd(costDelta) is the difference itself.
compareSessionSummaries(baseline, compare) ==
  LET costDelta == compare.cost.totalCostUsd - baseline.cost.totalCostUsd
      costDeltaPct ==
        IF baseline.cost.totalCostUsd > 0
        THEN Pct(costDelta * 100, baseline.cost.totalCostUsd)
        ELSE Pct(0, 1)
      durationDelta ==
        IF baseline.durationMs # NullNum /\ compare.durationMs # NullNum
        THEN Value(compare.durationMs - baseline.durationMs)
        ELSE NoValue
      durationKnown ==
        ~durationDelta.isNull /\ baseline.durationMs # NullNum
          /\ baseline.durationMs > 0
      durationDeltaPct ==
        IF durationKnown
        THEN Pct(durationDelta.v * 100, baseline.durationMs) ELSE Pct(0, 1)
      baseP95 == IF baseline.overallLatency.isNull
                 THEN NullNum ELSE baseline.overallLatency.p95Ms
      cmpP95 == IF compare.overallLatency.isNull
                THEN NullNum ELSE compare.overallLatency.p95Ms
      p95Delta == IF baseP95 # NullNum /\ cmpP95 # NullNum
                  THEN Value(cmpP95 - baseP95) ELSE NoValue
      p95Known == ~p95Delta.isNull /\ baseP95 # NullNum
      p95DeltaPctVal == IF p95Known THEN p95DeltaPct(baseP95, cmpP95) ELSE Pct(0, 1)
      r1 == IF PctGt(costDeltaPct, 0)
            THEN maybeFlag(<<>>, "cost_usd", baseline.cost.totalCostUsd,
                           compare.cost.totalCostUsd, costDeltaPct)
            ELSE <<>>
      r2 == IF durationKnown /\ PctGt(durationDeltaPct, 0) /\ baseline.durationMs # 0
            THEN maybeFlag(r1, "session_duration_ms", baseline.durationMs,
                           IF compare.durationMs = NullNum THEN 0
                           ELSE compare.durationMs,
                           durationDeltaPct)
            ELSE r1
      r3 == IF p95Known /\ PctGt(p95DeltaPctVal, 0)
               /\ baseP95 # NullNum /\ cmpP95 # NullNum
            THEN maybeFlag(r2, "p95_tool_latency_ms", baseP95, cmpP95, p95DeltaPctVal)
            ELSE r2
  IN [baselineSessionId |-> baseline.sessionId,
      compareSessionId |-> compare.sessionId,
      costDeltaUsd |-> costDelta,
      costDeltaPct |-> RoundTenths(costDeltaPct),
      durationDeltaMs |-> durationDelta,
      durationDeltaPct |-> IF durationKnown
                           THEN Value(RoundTenths(durationDeltaPct)) ELSE NoValue,
      toolCallDelta |-> compare.toolCallCount - baseline.toolCallCount,
      p95LatencyDeltaMs |-> p95Delta,
      p95LatencyDeltaPct |-> IF p95Known
                             THEN Value(RoundTenths(p95DeltaPctVal)) ELSE NoValue,
      regressions |-> r3]

\* --------------------------------------------------------- end_session.ts
\* Mutant: the already-ended check is missing.
handleEndSession_NoEndedCheck(db, sessionId, now, fail) ==
  IF ~HasSession(db, sessionId)
  THEN [db |-> db, out |-> Out("not_found", "none")]
  ELSE [db |-> eventsInsert(sessionsEnd(db, sessionId, now),
                 NewEvent(db, sessionId, "SESSION_END", NullStr, NullStr,
                          NullNum, NullNum, NullNum, NullStr, now)),
        out |-> Out("ended", "none")]

\* session.ended_at is an ISO string once set, hence truthy exactly when set.
handleEndSession(db, sessionId, now, fail) ==
  IF fail = "sessions.getById" THEN wrapHandler(db)
  ELSE IF ~HasSession(db, sessionId)
  THEN [db |-> db, out |-> Out("not_found", "none")]
  ELSE IF getById(db, sessionId).ended_at # NullNum
  THEN [db |-> db, out |-> Out("already_ended", "none")]
  ELSE LET body ==
             IF fail = "sessions.end" THEN [db |-> db, threw |-> TRUE]
             ELSE LET db1 == sessionsEnd(db, sessionId, now) IN
             IF fail = "events.insert" THEN [db |-> db1, threw |-> TRUE]
             ELSE [db |-> eventsInsert(db1,
                            NewEvent(db1, sessionId, "SESSION_END", NullStr,
                                     NullStr, NullNum, NullNum, NullNum,
                                     NullStr, now)),
                   threw |-> FALSE]
           tx == transaction(db, body)
       IN
  IF tx.threw THEN wrapHandler(tx.db)
  \* buildSessionSummary's reads run after the commit
  ELSE IF fail = "summary" THEN wrapHandler(tx.db)
  ELSE [db |-> tx.db, out |-> Out("ended", "none")]

\* -------------------------------------------------- sessions.ts: listings
\* ORDER BY started_at DESC, rows of equal started_at in insertion order
RECURSIVE InsertByStartDesc(_, _)
InsertByStartDesc(sorted, r) ==
  IF sorted = <<>> THEN <<r>>
  ELSE IF r.started_at >= Head(sorted).started_at THEN <<r>> \o sorted
       ELSE <<Head(sorted)>> \o InsertByStartDesc(Tail(sorted), r)

RECURSIVE SortByStartDesc(_)
SortByStartDesc(rs) ==
  IF rs = <<>> THEN <<>> ELSE InsertByStartDesc(SortByStartDesc(Tail(rs)), Head(rs))

Limit(rows, n) == SubSeq(rows, 1, Min2(n, Len(rows)))

listRecent(db, limit) == Limit(SortByStartDesc(db.sessions), limit)

listByStatus(db, status, limit) ==
  Limit(SortByStartDesc(
          SelectSeq(db.sessions,
                    LAMBDA r : \/ status = "active" /\ r.ended_at = NullNum
                               \/ status = "ended" /\ r.ended_at # NullNum
                               \/ status = "all")),
        limit)

\* --------------------------------------------------------- read handlers
\* Each returns [db, out]; out.kind names the message or result shape, and
\* out.ids the sessions whose summaries the result carries.
ReadOut(kind, ids) ==
  [kind |-> kind, threw |-> FALSE, warning |-> "none", ids |-> ids]

\* Mutant: building the summary writes the pricing model back to the session.
handleGetSessionMetrics_WritesBack(db, sessionId, fail) ==
  IF ~HasSession(db, sessionId)
  THEN [db |-> db, out |-> ReadOut("not_found", <<>>)]
  ELSE [db |-> updateModel(db, sessionId,
                           buildSessionSummary(db, sessionId).cost.modelUsed),
        out |-> ReadOut("summary", <<>>)]

\* get_session_metrics.ts
handleGetSessionMetrics(db, sessionId, fail) ==
  IF fail = "read" THEN wrapHandler(db)
  ELSE IF ~HasSession(db, sessionId)
  THEN [db |-> db, out |-> ReadOut("not_found", <<>>)]
  ELSE [db |-> db, out |-> ReadOut("summary", <<>>)]

\* get_latency_stats.ts; session_id 0 and tool_name NullStr are "omitted"
handleGetLatencyStats(db, toolName, sessionId, fail) ==
  IF fail = "read" THEN wrapHandler(db)
  ELSE IF sessionId # 0
  THEN IF ~HasSession(db, sessionId)
       THEN [db |-> db, out |-> ReadOut("not_found", <<>>)]
       ELSE LET durations == toolDurations(db, sessionId)
                filtered == IF Truthy(toolName)
                            THEN SelectSeq(durations, LAMBDA r : r.tool_name = toolName)
                            ELSE durations
            IN IF Len(filtered) = 0
               THEN [db |-> db, out |-> ReadOut("no_tool_end_in_session", <<>>)]
               ELSE [db |-> db, out |-> ReadOut("stats", <<>>)]
  ELSE LET allRows == allToolDurations(db)
           filtered == IF Truthy(toolName)
                       THEN SelectSeq(allRows, LAMBDA r : r.tool_name = toolName)
                       ELSE allRows
       IN IF Len(filtered) = 0
          THEN [db |-> db, out |-> ReadOut("no_tool_end_anywhere", <<>>)]
          ELSE IF Truthy(toolName)
               THEN [db |-> db, out |-> ReadOut("stats", <<>>)]
               ELSE [db |-> db, out |-> ReadOut("tool_breakdown", <<>>)]

\* compare_sessions.ts
handleCompareSessions(db, baselineId, compareId, fail) ==
  IF fail = "read" THEN wrapHandler(db)
  ELSE IF ~HasSession(db, baselineId)
  THEN [db |-> db, out |-> ReadOut("not_found", <<>>)]
  ELSE IF ~HasSession(db, compareId)
  THEN [db |-> db, out |-> ReadOut("not_found", <<>>)]
  ELSE [db |-> db, out |-> ReadOut("comparison", <<>>)]

\* list_sessions.ts
handleListSessions(db, limit, status, verbose, fail) ==
  IF fail = "read" THEN wrapHandler(db)
  ELSE LET rows == listByStatus(db, status, limit)
           ids == [i \in 1..Len(rows) |-> rows[i].id]
       IN IF Len(rows) = 0
          THEN [db |-> db, out |-> ReadOut("no_sessions", <<>>)]
          ELSE IF verbose
               THEN [db |-> db, out |-> ReadOut("summaries", <<>>)]
               ELSE [db |-> db, out |-> ReadOut("table", <<>>)]

\* export_metrics.ts; session_ids <<>> is "omitted or empty"
handleExportMetrics(db, sessionIdsIn, limit, fail) ==
  IF fail = "read" THEN wrapHandler(db)
  ELSE LET rows == listRecent(db, limit)
           sessionIds == IF Len(sessionIdsIn) > 0 THEN sessionIdsIn
                         ELSE [i \in 1..Len(rows) |-> rows[i].id]
           summaries == SelectSeq(sessionIds, LAMBDA id : HasSession(db, id))
       IN IF Len(summaries) = 0
          THEN [db |-> db, out |-> ReadOut("no_sessions_for_export", <<>>)]
          ELSE [db |-> db, out |-> ReadOut("exported", summaries)]

\* ------------------------------------------------------------------ inputs
\* Session ids a caller may pass: every id the store can hold and one more,
\* which never exists.
SessionIdInputs == 1..(MaxSessions + 1)

ModelInputs == {NullStr, "", "gemini-2.5-pro", "gemini-2.5-flash"}

\* record_event inputs that pass RecordEventInputSchema
EventFields(types, tools, models, pcs, rcs, durs, errs) ==
  [session_id : SessionIdInputs, event_type : types, tool_name : tools,
   model : models, prompt_chars : pcs, response_chars : rcs,
   duration_ms : durs, error_message : errs]

PlainEvents(types) ==
  EventFields(types, {NullStr}, {NullStr}, {NullNum}, {NullNum}, {NullNum}, {NullStr})

ToolEndEvents ==
  EventFields({"TOOL_END"}, {"read_file"}, {NullStr}, {NullNum}, {4000}, {100}, {NullStr})

LlmRequestEvents(models) ==
  EventFields({"LLM_REQUEST"}, {NullStr}, models, {4000}, {NullNum}, {NullNum}, {NullStr})

LlmResponseEvents(models) ==
  EventFields({"LLM_RESPONSE"}, {NullStr}, models, {NullNum}, {800}, {NullNum}, {NullStr})

\* set_budget inputs that pass SetBudgetInputSchema (NullNum: field omitted)
BudgetFields(sessionCaps, dayCaps, pcts) ==
  [max_per_session_usd : sessionCaps, max_per_day_usd : dayCaps,
   alert_threshold_pct : pcts]

StartFails == {"none", "sessions.insert", "events.insert"}
RecordFails ==
  {"none", "sessions.getById", "events.insert", "sessions.updateModel",
   "budget.get", "events.llmChars", "events.dailyLlmChars", "events.insertWarning"}
EndFails == {"none", "sessions.getById", "sessions.end", "events.insert", "summary"}
BudgetFails == {"none", "budget.get", "budget.update"}

\* The input recorded with a call: set_budget's fields; the other tools'
\* inputs are read off the store they leave.
NoArg ==
  [max_per_session_usd |-> NullNum, max_per_day_usd |-> NullNum,
   alert_threshold_pct |-> NullNum]

\* -------------------------------------------------------------------- Init
\* The store after runMigrations: no rows, the seeded budget_config row.
StoreInit ==
  /\ sessions = <<>>
  /\ events = <<>>
  /\ budget = [max_per_session_usd |-> 0, max_per_day_usd |-> 0,
               alert_threshold_pct |-> SeedAlertThresholdPct]
  /\ clock = 0
  /\ last = [op |-> "init", sid |-> 0, missing |-> FALSE, arg |-> NoArg,
             kind |-> "none", threw |-> FALSE, warning |-> "none", ids |-> <<>>]

NoCalc == [fn |-> "none"]

Init == StoreInit /\ calc = NoCalc

\* ----------------------------------------------------------------- actions
\* One tool call: the store becomes what the handler left, and `last` records
\* the call (tool, session id, whether a referenced id was missing, input)
\* with its result.
CallWith(maxEvents, run, op, sid, missing, arg) ==
  /\ Len(run.db.sessions) <= MaxSessions
  /\ Len(run.db.events) <= maxEvents
  /\ sessions' = run.db.sessions
  /\ events' = run.db.events
  /\ budget' = run.db.budget
  /\ last' = [op |-> op, sid |-> sid, missing |-> missing, arg |-> arg,
              kind |-> run.out.kind, threw |-> run.out.threw,
              warning |-> run.out.warning, ids |-> run.out.ids]
  /\ UNCHANGED <<clock, calc>>

CallWithin(maxEvents, run, op, sid, missing) ==
  CallWith(maxEvents, run, op, sid, missing, NoArg)

Call(run, op, sid, missing) == CallWithin(MaxEvents, run, op, sid, missing)

Missing(id) == ~HasSession(Db, id)

StartSessionOver(models, fails) ==
  \E model \in models, fail \in fails :
    Call(handleStartSession(Db, model, clock, fail),
         "start_session", generateSessionId(Db), FALSE)

RecordEventWithin(maxEvents, inputs, fails) ==
  \E input \in inputs, fail \in fails :
    CallWithin(maxEvents, handleRecordEvent(Db, input, clock, fail),
               "record_event", input.session_id, Missing(input.session_id))

RecordEventOver(inputs, fails) == RecordEventWithin(MaxEvents, inputs, fails)

EndSessionOver(fails) ==
  \E sid \in SessionIdInputs, fail \in fails :
    Call(handleEndSession(Db, sid, clock, fail),
         "end_session", sid, Missing(sid))

SetBudgetOver(inputs, fails) ==
  \E input \in inputs, fail \in fails :
    CallWith(MaxEvents, handleSetBudget(Db, input, fail),
             "set_budget", 0, FALSE, input)

\* Wall-clock time passes between calls.
Tick ==
  /\ clock < MaxClock
  /\ clock' = clock + 1
  /\ UNCHANGED <<sessions, events, budget, last, calc>>

GetSessionMetrics ==
  \E sid \in SessionIdInputs :
    Call(handleGetSessionMetrics(Db, sid, "none"),
         "get_session_metrics", 0, Missing(sid))

GetLatencyStats ==
  \E tool \in {NullStr, "read_file"}, sid \in {0} \cup SessionIdInputs :
    Call(handleGetLatencyStats(Db, tool, sid, "none"),
         "get_latency_stats", 0, sid # 0 /\ Missing(sid))

CompareSessions ==
  \E b \in SessionIdInputs, c \in SessionIdInputs :
    Call(handleCompareSessions(Db, b, c, "none"),
         "compare_sessions", 0, Missing(b) \/ Missing(c))

ListSessions ==
  \E limit \in {1, 10}, status \in {"active", "ended", "all"}, verbose \in BOOLEAN :
    Call(handleListSessions(Db, limit, status, verbose, "none"),
         "list_sessions", 0, FALSE)

ExportIdInputs ==
  {<<>>} \cup {<<a>> : a \in SessionIdInputs}
         \cup {<<1, b>> : b \in SessionIdInputs \ {1}}

ExportMetrics ==
  \E ids \in ExportIdInputs, limit \in {1, 50} :
    Call(handleExportMetrics(Db, ids, limit, "none"),
         "export_metrics", 0, \E i \in 1..Len(ids) : Missing(ids[i]))

\* ---- Spec: all nine tools over a working store
StartSession == StartSessionOver(ModelInputs, {"none"})

RecordEvent ==
  RecordEventOver(PlainEvents({"SESSION_END"})
                    \cup ToolEndEvents
                    \cup LlmRequestEvents({"gemini-2.5-pro"})
                    \cup LlmResponseEvents({NullStr}),
                  {"none"})

EndSession == EndSessionOver({"none"})

SetBudget == SetBudgetOver(BudgetFields({75}, {NullNum}, {NullNum}), {"none"})

Next ==
  \/ StartSession
  \/ RecordEvent
  \/ EndSession
  \/ SetBudget
  \/ GetSessionMetrics
  \/ GetLatencyStats
  \/ CompareSessions
  \/ ListSessions
  \/ ExportMetrics
  \/ Tick

Spec == Init /\ [][Next]_vars

\* ---- SpecFail: the write tools, where any store call may throw
StartSessionF == StartSessionOver({NullStr, "gemini-2.5-flash"}, StartFails)

RecordEventF ==
  RecordEventOver(ToolEndEvents
                    \cup LlmRequestEvents({"gemini-2.5-pro"})
                    \cup LlmResponseEvents({NullStr}),
                  RecordFails)

EndSessionF == EndSessionOver(EndFails)

SetBudgetF ==
  SetBudgetOver(BudgetFields({NullNum, 75}, {NullNum, 150}, {NullNum}), BudgetFails)

NextFail ==
  \/ StartSessionF
  \/ RecordEventF
  \/ EndSessionF
  \/ SetBudgetF
  \/ Tick

SpecFail == Init /\ [][NextFail]_vars

\* ---- SpecBudget: LLM traffic under changing budget configurations
StartSessionB == StartSessionOver({NullStr}, {"none"})

RecordEventB ==
  RecordEventWithin(MaxBudgetEvents,
                  PlainEvents({"BUDGET_WARNING"})
                    \cup ToolEndEvents
                    \cup LlmRequestEvents({NullStr, "gemini-2.5-flash"})
                    \cup LlmResponseEvents({NullStr, "gemini-2.5-pro"}),
                  {"none"})

SetBudgetB ==
  SetBudgetOver(BudgetFields({NullNum, 0, 75}, {NullNum, 0, 150}, {NullNum, 100}),
                {"none"})

NextBudget ==
  \/ StartSessionB
  \/ RecordEventB
  \/ SetBudgetB
  \/ Tick

SpecBudget == Init /\ [][NextBudget]_vars

\* ---- SpecLog: sessions whose logs mix every kind of tool and error event
\* TOOL_END with and without a tool name, a duration and an error message;
\* TOOL_START and ERROR with and without a tool name and a duration; an
\* LLM_RESPONSE carrying a duration; an LLM_REQUEST; a caller's BUDGET_WARNING.
LogEvents ==
  EventFields({"TOOL_END"}, {NullStr, "read_file", "write_file"}, {NullStr},
              {NullNum}, {NullNum}, {NullNum, 100, 300}, {NullStr, "ENOENT"})
    \cup EventFields({"TOOL_START", "ERROR"}, {NullStr, "grep"}, {NullStr},
                     {NullNum}, {NullNum}, {NullNum, 100}, {NullStr})
    \cup EventFields({"LLM_RESPONSE"}, {NullStr}, {NullStr},
                     {NullNum}, {800}, {50}, {NullStr})
    \cup LlmRequestEvents({NullStr})
    \cup PlainEvents({"BUDGET_WARNING"})

StartSessionL == StartSessionOver({NullStr}, {"none"})

RecordEventL == RecordEventWithin(MaxLogEvents, LogEvents, {"none"})

EndSessionL == EndSessionOver({"none"})

NextLog ==
  \/ StartSessionL
  \/ RecordEventL
  \/ EndSessionL

SpecLog == Init /\ [][NextLog]_vars

\* ---- SpecPercentiles: computePercentiles applied to duration collections
\* All sequences of 1..MaxSamples durations in 0..MaxDuration, and the
\* descending ramps <<n, ..., 1>> for n up to MaxRamp.
RECURSIVE SeqsUpTo(_, _)
SeqsUpTo(S, n) ==
  IF n = 0 THEN {<<>>}
  ELSE LET shorter == SeqsUpTo(S, n - 1)
       IN shorter \cup {Append(q, x) : q \in {r \in shorter : Len(r) = n - 1}, x \in S}

Ramp(n) == [i \in 1..n |-> n + 1 - i]

DurationInputs ==
  (SeqsUpTo(0..MaxDuration, MaxSamples) \ {<<>>}) \cup {Ramp(n) : n \in 1..MaxRamp}

InitPercentiles ==
  /\ StoreInit
  /\ calc \in {[fn |-> "input", args |-> ds, result |-> NoStats] : ds \in DurationInputs}

ComputePercentiles ==
  /\ calc.fn = "input"
  /\ calc' = [calc EXCEPT !.fn = "computePercentiles",
                           !.result = computePercentiles(calc.args)]
  /\ UNCHANGED <<sessions, events, budget, clock, last>>

NextPercentiles == ComputePercentiles

SpecPercentiles == InitPercentiles /\ [][NextPercentiles]_vars

\* ---- SpecCost: computeCost applied to sets of LLM rows
LlmRows(pcs, rcs, models) ==
  [prompt_chars : pcs, response_chars : rcs, model : models]

CostRowInputs ==
  SeqsUpTo(LlmRows({NullNum, 2, 4000}, {NullNum, 3, 800},
                   {NullStr, "gemini-2.5-pro", "gemini-2.5-flash"}),
           MaxRows)

InitCost ==
  /\ StoreInit
  /\ calc \in {[fn |-> "input", args |-> rows, result |-> computeCost(<<>>)] :
                rows \in CostRowInputs}

ComputeCost ==
  /\ calc.fn = "input"
  /\ calc' = [calc EXCEPT !.fn = "computeCost", !.result = computeCost(calc.args)]
  /\ UNCHANGED <<sessions, events, budget, clock, last>>

NextCost == ComputeCost

SpecCost == InitCost /\ [][NextCost]_vars

\* ---- SpecDominant: computeCost applied to rows that differ in their model
\* Up to MaxModelRows rows of 800 response characters each, with no model,
\* the empty model and three identifiers, two of them containing "flash".
ModelRowInputs ==
  SeqsUpTo([prompt_chars : {NullNum}, response_chars : {800},
            model : {NullStr, "", "gemini-2.5-pro", "gemini-2.5-flash",
                     "gemini-2.0-flash-lite"}],
           MaxModelRows)

InitDominant ==
  /\ StoreInit
  /\ calc \in {[fn |-> "input", args |-> rows, result |-> computeCost(<<>>)] :
                 rows \in ModelRowInputs}

ComputeDominant ==
  /\ calc.fn = "input"
  /\ calc' = [calc EXCEPT !.fn = "computeCost", !.result = computeCost(calc.args)]
  /\ UNCHANGED <<sessions, events, budget, clock, last>>

NextDominant == ComputeDominant

SpecDominant == InitDominant /\ [][NextDominant]_vars

\* ---- SpecCostPair: computeCost applied to two sets of LLM rows
CostPairRowInputs ==
  SeqsUpTo(LlmRows({28, 4000}, {NullNum, 800}, {NullStr, "gemini-2.5-flash"}),
           MaxPairRows)

InitCostPair ==
  /\ StoreInit
  /\ calc \in {[fn |-> "input", args |-> <<a, b>>,
                 result |-> <<computeCost(<<>>), computeCost(<<>>)>>] :
                a \in CostPairRowInputs, b \in CostPairRowInputs}

ComputeCostPair ==
  /\ calc.fn = "input"
  /\ calc' = [calc EXCEPT !.fn = "computeCostPair",
                           !.result = <<computeCost(calc.args[1]),
                                        computeCost(calc.args[2])>>]
  /\ UNCHANGED <<sessions, events, budget, clock, last>>

NextCostPair == ComputeCostPair

SpecCostPair == InitCostPair /\ [][NextCostPair]_vars

\* ---- SpecCompare: compareSessionSummaries applied to two Session Summaries
\* The fields of a summary the comparator reads. A summary with latency data
\* has p95Ms among its samples; with none, overallLatency is null.
LatencyOf(p95) ==
  IF p95 = NullNum THEN NoStats ELSE computePercentiles(<<p95>>)

Summaries(ids, costs, durations, p95s, toolCalls) ==
  {[sessionId |-> id, cost |-> [totalCostUsd |-> c], durationMs |-> d,
    overallLatency |-> LatencyOf(p), toolCallCount |-> t] :
     id \in ids, c \in costs, d \in durations, p \in p95s, t \in toolCalls}

BaselineSummaries ==
  Summaries({1}, {0, 1000}, {NullNum, 0, 1000, 1200}, {NullNum, 0, 1000}, {1, 2})

CompareSummaries ==
  Summaries({1}, {0, 1000, 1200, 1201, 1500, 1501},
            {NullNum, 0, 1000, 1200, 1201, 1500, 1501},
            {NullNum, 0, 1000, 1200, 1201, 1500, 1501}, {1, 2})

InitCompare ==
  /\ StoreInit
  /\ calc \in {[fn |-> "input", args |-> <<b, c>>, result |-> NoValue] :
                b \in BaselineSummaries, c \in CompareSummaries}

CompareSummariesStep ==
  /\ calc.fn = "input"
  /\ calc' = [calc EXCEPT !.fn = "compareSessionSummaries",
                           !.result = compareSessionSummaries(calc.args[1],
                                                              calc.args[2])]
  /\ UNCHANGED <<sessions, events, budget, clock, last>>

NextCompare == CompareSummariesStep

SpecCompare == InitCompare /\ [][NextCompare]_vars

\* ================================================================== claims
\* A step that is a tool call (not the passing of time).
IsCall == clock' = clock

StoreUnchanged == sessions' = sessions /\ events' = events /\ budget' = budget

Ended(sid) == HasSession(Db, sid) /\ getById(Db, sid).ended_at # NullNum

ReadOps ==
  {"get_session_metrics", "get_latency_stats", "compare_sessions",
   "list_sessions", "export_metrics"}

\* Every event of the log before the step is in the log after it, same id and
\* same field values.
EventsKept ==
  /\ Len(events') >= Len(events)
  /\ \A i \in 1..Len(events) : events'[i] = events[i]

\* C1: once a session has been ended, an end_session call on the same id
\* returns the already-ended result and changes nothing in the store: ended_at
\* keeps its value and no event is appended.
C1_SecondEndIsNoop ==
  [][\A sid \in SessionIdInputs :
       (IsCall /\ Ended(sid) /\ last'.op = "end_session" /\ last'.sid = sid)
         => (last'.kind = "already_ended" /\ StoreUnchanged)]_vars

\* C1 witness: a second end_session, later than the first, has been answered.
C1_Witness ==
  /\ last.op = "end_session"
  /\ last.kind = "already_ended"
  /\ Ended(last.sid)
  /\ getById(Db, last.sid).ended_at < clock

\* C2: over every step, a session's started_at never changes and its ended_at,
\* once set, never changes.
C2_EndingIsTerminal ==
  [][\A i \in 1..Len(sessions) :
       /\ Len(sessions') >= i
       /\ sessions'[i].id = sessions[i].id
       /\ sessions'[i].started_at = sessions[i].started_at
       /\ (sessions[i].ended_at # NullNum
             => sessions'[i].ended_at = sessions[i].ended_at)]_vars

\* C2 witness: after a session was ended, time passed and an event was
\* recorded on it; it is still ended at the time of its first ending.
C2_Witness ==
  /\ last.op = "record_event"
  /\ last.kind = "recorded"
  /\ Ended(last.sid)
  /\ getById(Db, last.sid).started_at <= getById(Db, last.sid).ended_at
  /\ getById(Db, last.sid).ended_at < events[Len(events)].recorded_at

\* C3 (as claimed): a session's model, once non-null, is never changed by any
\* later step.
C3_ModelNeverOverwritten ==
  [][\A i \in 1..Len(sessions) :
       sessions[i].model # NullStr
         => (Len(sessions') >= i /\ sessions'[i].model = sessions[i].model)]_vars

\* C4 (as claimed): every step keeps the events it found, and updates or
\* deletes no session.
C4_Original ==
  [][/\ EventsKept
     /\ \A i \in 1..Len(sessions) :
          Len(sessions') >= i /\ sessions'[i] = sessions[i]]_vars

\* C4 (amended): every step keeps the events it found, same ids and same
\* field values, and deletes no session.
C4_AppendOnly ==
  [][/\ EventsKept
     /\ \A i \in 1..Len(sessions) :
          Len(sessions') >= i /\ sessions'[i].id = sessions[i].id]_vars

\* C4 witness: a log of several events, the latest appended by ending a
\* session whose header was thereby updated.
C4_Witness ==
  /\ Len(events) >= 3
  /\ last.op = "end_session"
  /\ last.kind = "ended"
  /\ events[Len(events)].event_type = "SESSION_END"

\* C5: a call of a read tool leaves sessions, events and the budget
\* configuration exactly as they were, whether the ids it names exist or not.
C5_ReadsDoNotMutate ==
  [][(IsCall /\ last'.op \in ReadOps) => StoreUnchanged]_vars

\* C5 witness: a summary was built for an existing session with events, after
\* which the store still holds them.
C5_Witness ==
  /\ last.op = "get_session_metrics"
  /\ last.kind = "summary"
  /\ ~last.missing
  /\ Len(events) >= 2
\* C6 (as claimed): whenever a call names a session id that does not exist,
\* the caller gets the not-found outcome.
C6_MissingIdIsNotFound == last.missing => last.kind = "not_found"

\* C7 (as claimed): a call that fails on a store error leaves the store as it
\* found it.
C7_FailedCallChangesNothing ==
  [][(IsCall /\ last'.threw) => StoreUnchanged]_vars

\* C8: in every reachable state, failed calls included, every session header
\* has a SESSION_START event and every ended session has a SESSION_END event.
C8_OpenCloseAtomic ==
  \A i \in 1..Len(sessions) :
    /\ \E k \in 1..Len(events) :
         /\ events[k].session_id = sessions[i].id
         /\ events[k].event_type = "SESSION_START"
    /\ sessions[i].ended_at # NullNum
         => \E k \in 1..Len(events) :
              /\ events[k].session_id = sessions[i].id
              /\ events[k].event_type = "SESSION_END"

\* C8 witness: an end_session call on an open session has failed, and the
\* session is still open with no SESSION_END in the log.
C8_Witness ==
  /\ last.op = "end_session"
  /\ last.threw
  /\ HasSession(Db, last.sid)
  /\ getById(Db, last.sid).ended_at = NullNum
  /\ \A k \in 1..Len(events) : events[k].event_type # "SESSION_END"

BothCapsZero == budget.max_per_session_usd = 0 /\ budget.max_per_day_usd = 0

\* C9 (as claimed): with both caps at 0, a record_event call returns no budget
\* warning and appends no BUDGET_WARNING event.
C9_Original ==
  [][(IsCall /\ BothCapsZero /\ last'.op = "record_event")
       => /\ last'.warning = "none"
          /\ \A k \in (Len(events) + 1)..Len(events') :
               events'[k].event_type # "BUDGET_WARNING"]_vars

\* C9, leaving aside what the caller writes: with both caps at 0, a
\* record_event call returns no budget warning and appends no event besides
\* the one the caller supplied.
C9_NoWarningWhenDisabled ==
  [][(IsCall /\ BothCapsZero /\ last'.op = "record_event")
       => /\ last'.warning = "none"
          /\ EventsKept
          /\ Len(events') <= Len(events) + 1]_vars

\* The event a successful record_event call was given: the latest of the log,
\* or the one before the BUDGET_WARNING the call appended after it.
TriggerEvent ==
  IF last.warning = "none" THEN events[Len(events)] ELSE events[Len(events) - 1]

\* The Cost Model's total over the LLM_REQUEST / LLM_RESPONSE rows of a session.
SessionLlmCost(sid) ==
  computeCost(SelectSeq(events,
                LAMBDA e : e.session_id = sid
                           /\ (e.event_type = "LLM_REQUEST"
                               \/ e.event_type = "LLM_RESPONSE"))).totalCostUsd

\* C9 witness: with both caps at 0, an LLM_RESPONSE was recorded on a session
\* that has accumulated cost, and no warning came back.
C9_Witness ==
  /\ BothCapsZero
  /\ last.op = "record_event"
  /\ last.kind = "recorded"
  /\ last.warning = "none"
  /\ events[Len(events)].event_type = "LLM_RESPONSE"
  /\ SessionLlmCost(last.sid) > 0

\* A record_event call has run the budget evaluation to its end.
Evaluated ==
  /\ last.op = "record_event"
  /\ last.kind = "recorded"
  /\ TriggerEvent.event_type \in {"LLM_RESPONSE", "TOOL_END"}

C11_WarningAfterEveryLlmEvent ==
  (/\ last.op = "record_event"
   /\ last.kind = "recorded"
   /\ TriggerEvent.event_type \in {"LLM_REQUEST", "LLM_RESPONSE"}
   /\ budget.max_per_session_usd > 0
   /\ SessionLlmCost(last.sid) * 100
        >= budget.max_per_session_usd * budget.alert_threshold_pct)
    => last.warning # "none"

\* C12: a set_budget call gives each supplied field (an explicit 0 included)
\* the supplied value, leaves each omitted field at its prior value, and
\* changes neither sessions nor events.
C12_SetBudgetMerges ==
  [][(IsCall /\ last'.op = "set_budget" /\ last'.kind = "budget_updated")
       => /\ budget'.max_per_session_usd =
               IF last'.arg.max_per_session_usd # NullNum
               THEN last'.arg.max_per_session_usd ELSE budget.max_per_session_usd
          /\ budget'.max_per_day_usd =
               IF last'.arg.max_per_day_usd # NullNum
               THEN last'.arg.max_per_day_usd ELSE budget.max_per_day_usd
          /\ budget'.alert_threshold_pct =
               IF last'.arg.alert_threshold_pct # NullNum
               THEN last'.arg.alert_threshold_pct ELSE budget.alert_threshold_pct
          /\ sessions' = sessions
          /\ events' = events]_vars

\* C12 witness: over a store with events, a set_budget call supplied an
\* explicit 0 for the session cap and omitted the other two fields, which
\* still hold the values an earlier call gave them.
C12_Witness ==
  /\ last.op = "set_budget"
  /\ last.kind = "budget_updated"
  /\ last.arg.max_per_session_usd = 0
  /\ last.arg.max_per_day_usd = NullNum
  /\ last.arg.alert_threshold_pct = NullNum
  /\ budget = [max_per_session_usd |-> 0, max_per_day_usd |-> 150,
               alert_threshold_pct |-> 100]
  /\ Len(events) > 0

\* The 1-based nearest rank of percentile p among n samples:
\* clamp(ceil(p / 100 * n) - 1, 0, n - 1) + 1.
NearestRank(p, n) ==
  LET c == (p * n + 99) \div 100
  IN IF c < 1 THEN 1 ELSE IF c > n THEN n ELSE c

\* v is the sample of rank r in ascending order: fewer than r samples are
\* below it, and at least r are at or below it.
IsSampleOfRank(ds, v, r) ==
  /\ \E i \in 1..Len(ds) : ds[i] = v
  /\ Cardinality({i \in 1..Len(ds) : ds[i] < v}) < r
  /\ Cardinality({i \in 1..Len(ds) : ds[i] <= v}) >= r

\* C13: for a non-empty collection, each of p50, p75, p95, p99 is the
\* nearest-rank sample (hence a member of the input), the chain
\* min <= p50 <= p75 <= p95 <= p99 <= max holds with min and max the least and
\* greatest samples, and for a single sample d all of them and the mean are d.
C13_NearestRankPercentiles ==
  calc.fn = "computePercentiles" =>
    LET ds == calc.args
        n == Len(ds)
        st == calc.result
    IN /\ ~st.isNull
       /\ st.sampleCount = n
       /\ IsSampleOfRank(ds, st.p50Ms, NearestRank(50, n))
       /\ IsSampleOfRank(ds, st.p75Ms, NearestRank(75, n))
       /\ IsSampleOfRank(ds, st.p95Ms, NearestRank(95, n))
       /\ IsSampleOfRank(ds, st.p99Ms, NearestRank(99, n))
       /\ IsSampleOfRank(ds, st.minMs, 1)
       /\ IsSampleOfRank(ds, st.maxMs, n)
       /\ st.minMs <= st.p50Ms /\ st.p50Ms <= st.p75Ms /\ st.p75Ms <= st.p95Ms
       /\ st.p95Ms <= st.p99Ms /\ st.p99Ms <= st.maxMs
       /\ n = 1 => /\ st.p50Ms = ds[1] /\ st.p75Ms = ds[1] /\ st.p95Ms = ds[1]
                   /\ st.p99Ms = ds[1] /\ st.minMs = ds[1] /\ st.maxMs = ds[1]
                   /\ st.meanMs = ds[1]

\* C13 witness: percentiles were computed over unsorted samples and came out
\* all different, the median above the least sample.
C13_Witness ==
  /\ calc.fn = "computePercentiles"
  /\ calc.args[1] > calc.args[Len(calc.args)]
  /\ calc.result.minMs < calc.result.p50Ms
  /\ calc.result.p50Ms < calc.result.p75Ms
  /\ calc.result.p75Ms < calc.result.p95Ms
  /\ calc.result.p95Ms < calc.result.p99Ms
  /\ calc.result.p99Ms <= calc.result.maxMs

\* The total of a nullable column over rows, a missing value counting 0.
RECURSIVE TotalUpTo(_, _)
TotalUpTo(col, n) ==
  IF n = 0 THEN 0
  ELSE (IF col[n] = NullNum THEN 0 ELSE col[n]) + TotalUpTo(col, n - 1)

TotalPromptChars(rows) ==
  TotalUpTo([i \in 1..Len(rows) |-> rows[i].prompt_chars], Len(rows))

TotalResponseChars(rows) ==
  TotalUpTo([i \in 1..Len(rows) |-> rows[i].response_chars], Len(rows))

\* t = ceil(chars / 4): the least t with 4 * t >= chars.
IsTokenEstimate(t, chars) ==
  t >= 0 /\ CharsPerToken * t >= chars /\ CharsPerToken * (t - 1) < chars

\* c microdollars is tokens / 1,000,000 * price rounded to a whole microdollar
\* (price in 1e-4 USD per 1M tokens): c is within half a microdollar of it.
IsRoundedCost(c, tokens, price) ==
  /\ 2 * (c * 10000 - tokens * price) <= 10000
  /\ 2 * (tokens * price - c * 10000) <= 10000

\* C14: computeCost estimates tokens once from each column's total over all
\* rows (a missing value counting 0), prices each side as tokens / 1,000,000 *
\* pricePer1M rounded to whole microdollars, and reports the sum of the two
\* token counts; 4000 prompt and 800 response characters under pro pricing
\* give 1000 and 200 tokens and $0.000075 + $0.00006 = $0.000135.
C14_CostFromTotals ==
  calc.fn = "computeCost" =>
    LET rows == calc.args
        c == calc.result
        pricing == pricingFor(c.modelUsed)
    IN /\ IsTokenEstimate(c.estimatedInputTokens, TotalPromptChars(rows))
       /\ IsTokenEstimate(c.estimatedOutputTokens, TotalResponseChars(rows))
       /\ c.estimatedTotalTokens = c.estimatedInputTokens + c.estimatedOutputTokens
       /\ IsRoundedCost(c.inputCostUsd, c.estimatedInputTokens, pricing.inputPer1M)
       /\ IsRoundedCost(c.outputCostUsd, c.estimatedOutputTokens, pricing.outputPer1M)
       /\ (/\ TotalPromptChars(rows) = 4000
           /\ TotalResponseChars(rows) = 800
           /\ ~IncludesFlash(c.modelUsed))
            => /\ c.estimatedInputTokens = 1000
               /\ c.estimatedOutputTokens = 200
               /\ c.inputCostUsd = 75
               /\ c.outputCostUsd = 60
               /\ c.totalCostUsd = 135
               /\ c.estimatedTotalTokens = 1200

\* C14 witness: the cost of two rows whose characters only together fill whole
\* tokens on one side, with a missing value on the other.
C14_Witness ==
  /\ calc.fn = "computeCost"
  /\ Len(calc.args) = 2
  /\ calc.args[1].prompt_chars = 2
  /\ calc.args[2].prompt_chars = 2
  /\ calc.args[1].response_chars = NullNum
  /\ calc.args[2].response_chars = 800
  /\ calc.result.estimatedInputTokens = 1
  /\ calc.result.estimatedOutputTokens = 200

\* C15: for two row sets with the same dominant model, if the second's prompt
\* total and response total are each >= the first's, then the second's input
\* cost, output cost and total cost are each >= the first's.
C15_CostMonotonic ==
  calc.fn = "computeCostPair" =>
    LET a == calc.args[1]
        b == calc.args[2]
        ca == calc.result[1]
        cb == calc.result[2]
    IN (/\ ca.modelUsed = cb.modelUsed
        /\ TotalPromptChars(b) >= TotalPromptChars(a)
        /\ TotalResponseChars(b) >= TotalResponseChars(a))
         => /\ cb.totalCostUsd >= ca.totalCostUsd
            /\ cb.inputCostUsd >= ca.inputCostUsd
            /\ cb.outputCostUsd >= ca.outputCostUsd

\* C15 witness: two row sets of the same dominant model, the second with more
\* prompt characters and as many response characters, and a higher cost.
C15_Witness ==
  /\ calc.fn = "computeCostPair"
  /\ calc.result[1].modelUsed = "gemini-2.5-flash"
  /\ calc.result[2].modelUsed = "gemini-2.5-flash"
  /\ TotalPromptChars(calc.args[2]) > TotalPromptChars(calc.args[1])
  /\ TotalResponseChars(calc.args[2]) = TotalResponseChars(calc.args[1])
  /\ TotalResponseChars(calc.args[1]) > 0
  /\ calc.result[2].totalCostUsd > calc.result[1].totalCostUsd
  /\ calc.result[2].outputCostUsd = calc.result[1].outputCostUsd

\* The flags a comparison raised for one metric.
FlagsFor(cmp, metric) == SelectSeq(cmp.regressions, LAMBDA r : r.metric = metric)

\* The severity the thresholds give a metric going from b to c: the
\* percentage delta d = (c - b) / b * 100 is critical when d > 50, a warning
\* when 20 < d <= 50, nothing when d <= 20; a value that is not available
\* (NullNum) or a baseline of 0 gives no percentage to flag.
SeverityOf(b, c) ==
  IF b = NullNum \/ c = NullNum \/ b = 0 THEN "none"
  ELSE IF (c - b) * 100 > 50 * b THEN "critical"
  ELSE IF (c - b) * 100 > 20 * b THEN "warning"
  ELSE "none"

FlaggedAs(cmp, metric, severity) ==
  IF severity = "none" THEN FlagsFor(cmp, metric) = <<>>
  ELSE /\ Len(FlagsFor(cmp, metric)) = 1
       /\ FlagsFor(cmp, metric)[1].severity = severity

P95Of(summary) ==
  IF summary.overallLatency.isNull THEN NullNum ELSE summary.overallLatency.p95Ms

SelfCompared == calc.fn = "compareSessionSummaries" /\ calc.args[1] = calc.args[2]

C18_DurationDeltaNullness ==
  calc.fn = "compareSessionSummaries" =>
    LET b == calc.args[1]
        c == calc.args[2]
        cmp == calc.result
        unknown == b.durationMs = NullNum \/ c.durationMs = NullNum
    IN /\ cmp.durationDeltaMs.isNull <=> unknown
       /\ cmp.durationDeltaPct.isNull <=> unknown
       /\ (~unknown /\ b.durationMs = 0) => cmp.durationDeltaPct = Value(0)

\* A percentage is rounded to one decimal place when ten times it is whole.
HasOneDecimal(pct) == (10 * pct.num) % pct.den = 0

\* C19 (as claimed): every percentage figure of a Session Comparison is
\* rounded to one decimal place, the deltaPct of every regression flag
\* included, and costDeltaUsd to 6 decimal places. (costDeltaPct,
\* durationDeltaPct and p95LatencyDeltaPct are held as the whole number of
\* tenths Math.round(x * 10) yields, costDeltaUsd as whole microdollars.)
C19_PercentagesRounded ==
  calc.fn = "compareSessionSummaries" =>
    LET cmp == calc.result
    IN /\ cmp.costDeltaPct \in Int
       /\ cmp.costDeltaUsd \in Int
       /\ \A i \in 1..Len(cmp.regressions) : HasOneDecimal(cmp.regressions[i].deltaPct)

\* The store a step leaves.
DbNext == [sessions |-> sessions', events |-> events', budget |-> budget']

\* The step is a successful end_session of session sid.
ClosesSession(sid) ==
  IsCall /\ last'.op = "end_session" /\ last'.sid = sid /\ last'.kind = "ended"

\* C20: a summary's durationMs is null until end_session closes the session,
\* is from then on the time from started_at to that end_session call, and no
\* other step (a record_event of a SESSION_END event included) sets or
\* changes it. (A step that changes neither sessions nor events and closes no
\* session leaves every summary as it was.)
C20_DurationOnlyFromEndSession ==
  [][\/ /\ sessions' = sessions
        /\ events' = events
        /\ \A sid \in 1..Len(sessions) : ~ClosesSession(sid)
     \/ \A sid \in 1..Len(sessions') :
          LET after == buildSessionSummary(DbNext, sid).durationMs IN
          IF ~HasSession(Db, sid) THEN after = NullNum
          ELSE LET before == buildSessionSummary(Db, sid).durationMs IN
               IF ClosesSession(sid)
               THEN before = NullNum /\ after = clock - getById(Db, sid).started_at
               ELSE after = before]_vars

\* C20 witness: a caller recorded a SESSION_END event on an open session some
\* time after its start, and the session's summary still has no duration.
C20_Witness ==
  /\ last.op = "record_event"
  /\ last.kind = "recorded"
  /\ events[Len(events)].event_type = "SESSION_END"
  /\ events[Len(events)].recorded_at > getById(Db, last.sid).started_at
  /\ ~Ended(last.sid)
  /\ buildSessionSummary(Db, last.sid).durationMs = NullNum

\* ---------------------------------------------------------------- C21
SeqToSet(s) == {s[i] : i \in 1..Len(s)}

\* Positions in the log of the events of session sid
LogOf(sid) == {k \in 1..Len(events) : events[k].session_id = sid}

CountOf(sid, type) == Cardinality({k \in LogOf(sid) : events[k].event_type = type})

ToolNamesOf(sid) ==
  {events[k].tool_name : k \in {j \in LogOf(sid) : events[j].tool_name # NullStr}}

\* C21: in every state the summary of every session counts exactly the
\* session's own TOOL_END, LLM_REQUEST and ERROR events, and its unique tools
\* are exactly the distinct non-null tool names on the session's events, each
\* listed once.
C21_SummaryReflectsLog ==
  \A sid \in 1..Len(sessions) :
    LET s == buildSessionSummary(Db, sid) IN
      /\ s.toolCallCount = CountOf(sid, "TOOL_END")
      /\ s.llmRequestCount = CountOf(sid, "LLM_REQUEST")
      /\ s.errorCount = CountOf(sid, "ERROR")
      /\ SeqToSet(s.uniqueToolsUsed) = ToolNamesOf(sid)
      /\ Len(s.uniqueToolsUsed) = Cardinality(ToolNamesOf(sid))

\* Two sessions: one with an ERROR event naming a tool and no TOOL_END, the
\* other with a TOOL_END.
C21_Witness ==
  \E a \in 1..Len(sessions), b \in 1..Len(sessions) :
    /\ a # b
    /\ buildSessionSummary(Db, a).errorCount = 1
    /\ buildSessionSummary(Db, a).toolCallCount = 0
    /\ buildSessionSummary(Db, a).uniqueToolsUsed = <<"grep">>
    /\ buildSessionSummary(Db, b).toolCallCount = 1
    /\ buildSessionSummary(Db, b).errorCount = 0

\* ---------------------------------------------------------------- C22
\* Positions of the session's TOOL_END events that carry both a tool name and
\* a duration
Qualifying(sid) ==
  {k \in LogOf(sid) : /\ events[k].event_type = "TOOL_END"
                      /\ events[k].tool_name # NullStr
                      /\ events[k].duration_ms # NullNum}

\* C22: the overall latency of a summary is absent exactly when the session
\* has no TOOL_END event with both a tool name and a duration, and otherwise
\* has one sample per such event, with the least and the greatest of their
\* durations as minimum and maximum; the per-tool breakdown has one entry per
\* tool name of these events, counting the tool's events among them, and is
\* empty when there are none.
C22_LatencyFromQualifyingToolEnds ==
  \A sid \in 1..Len(sessions) :
    LET s == buildSessionSummary(Db, sid)
        q == Qualifying(sid)
        names == {events[k].tool_name : k \in q}
    IN /\ s.overallLatency.isNull <=> q = {}
       /\ q = {} => s.overallLatency = NoStats /\ s.toolBreakdown = <<>>
       /\ s.overallLatency.sampleCount = Cardinality(q)
       /\ q # {} =>
            /\ \E k \in q : s.overallLatency.minMs = events[k].duration_ms
            /\ \E k \in q : s.overallLatency.maxMs = events[k].duration_ms
            /\ \A k \in q : /\ s.overallLatency.minMs <= events[k].duration_ms
                            /\ events[k].duration_ms <= s.overallLatency.maxMs
       /\ {s.toolBreakdown[i].toolName : i \in 1..Len(s.toolBreakdown)} = names
       /\ Len(s.toolBreakdown) = Cardinality(names)
       /\ \A i \in 1..Len(s.toolBreakdown) :
            s.toolBreakdown[i].callCount =
              Cardinality({k \in q : events[k].tool_name = s.toolBreakdown[i].toolName})

\* A session with a TOOL_END lacking a duration, an LLM_RESPONSE carrying
\* one, and a single TOOL_END with both a tool name and a duration.
C22_Witness ==
  \E sid \in 1..Len(sessions) :
    /\ \E k \in LogOf(sid) : /\ events[k].event_type = "TOOL_END"
                             /\ events[k].tool_name # NullStr
                             /\ events[k].duration_ms = NullNum
    /\ \E k \in LogOf(sid) : /\ events[k].event_type = "LLM_RESPONSE"
                             /\ events[k].duration_ms # NullNum
    /\ buildSessionSummary(Db, sid).overallLatency.sampleCount = 1
    /\ buildSessionSummary(Db, sid).overallLatency.minMs = 300

\* ---------------------------------------------------------------- C23
\* Rows that specify a model, how often an identifier occurs among the rows,
\* and the first row that carries it
Specifying(rows) == {i \in 1..Len(rows) : rows[i].model # NullStr /\ rows[i].model # ""}

Occurrences(rows, m) == Cardinality({i \in 1..Len(rows) : rows[i].model = m})

FirstRowOf(rows, m) ==
  CHOOSE i \in 1..Len(rows) :
    rows[i].model = m /\ \A j \in 1..(i - 1) : rows[j].model # m

\* C23: the model a cost estimate reports is null when no row specifies a
\* model; otherwise it is an identifier of some row that no other identifier
\* outnumbers and that is met first among those occurring as often; the
\* output cost is priced at the flash rate when that identifier contains
\* "flash" and at the default rate for every other identifier and for null.
C23_DominantModel ==
  calc.fn = "computeCost" =>
    LET rows == calc.args
        d == calc.result.modelUsed
        rate == IF d \in {"gemini-2.5-flash", "gemini-2.0-flash-lite"}
                THEN PriceFlashOutput ELSE PriceProOutput
    IN /\ Specifying(rows) = {} => d = NullStr
       /\ Specifying(rows) # {} =>
            /\ \E i \in Specifying(rows) : rows[i].model = d
            /\ \A j \in Specifying(rows) :
                 /\ Occurrences(rows, rows[j].model) <= Occurrences(rows, d)
                 /\ Occurrences(rows, rows[j].model) = Occurrences(rows, d)
                      => FirstRowOf(rows, d) <= FirstRowOf(rows, rows[j].model)
       /\ calc.result.outputCostUsd * 10000 = calc.result.estimatedOutputTokens * rate

\* Two identifiers twice each: the one met first is reported although the
\* other one is the later and a flash model.
C23_Witness ==
  /\ calc.fn = "computeCost"
  /\ Len(calc.args) = 4
  /\ [i \in 1..4 |-> calc.args[i].model]
       = <<"gemini-2.5-pro", "gemini-2.5-flash", "gemini-2.5-flash", "gemini-2.5-pro">>
  /\ calc.result.modelUsed = "gemini-2.5-pro"
  /\ calc.result.outputCostUsd = 240

\* ---------------------------------------------------------------- C24
\* C24: a record_event call that returns a budget warning has appended two
\* events to the session it was given, first the caller's LLM_RESPONSE or
\* TOOL_END event and after it one BUDGET_WARNING event; and no step removes
\* or changes an event of the log, so the triggering event stays.
C24_WarningIsAdvisory ==
  [][/\ EventsKept
     /\ (IsCall /\ last'.op = "record_event" /\ last'.warning # "none")
          => /\ last'.kind = "recorded"
             /\ Len(events') = Len(events) + 2
             /\ events'[Len(events) + 1].session_id = last'.sid
             /\ events'[Len(events) + 1].event_type \in {"LLM_RESPONSE", "TOOL_END"}
             /\ events'[Len(events) + 2].session_id = last'.sid
             /\ events'[Len(events) + 2].event_type = "BUDGET_WARNING"]_vars

\* A TOOL_END came back with the session warning and is in the log, followed by
\* the BUDGET_WARNING of the same session.
C24_Witness ==
  /\ last.op = "record_event"
  /\ last.warning = "session"
  /\ Len(events) >= 3
  /\ events[Len(events) - 1].event_type = "TOOL_END"
  /\ events[Len(events) - 1].session_id = last.sid
  /\ events[Len(events)].event_type = "BUDGET_WARNING"
  /\ events[Len(events)].session_id = last.sid

\* ---------------------------------------------------------------- C25
\* The value a summary has for a flagged metric (NullNum: not available)
MetricOf(summary, metric) ==
  IF metric = "cost_usd" THEN summary.cost.totalCostUsd
  ELSE IF metric = "session_duration_ms" THEN summary.durationMs
  ELSE P95Of(summary)

\* C25: every flag of a comparison carries the two summaries' values of its
\* metric, and the compare value is greater than the baseline value, which is
\* greater than 0.
C25_FlagsOnlyOnIncrease ==
  calc.fn = "compareSessionSummaries" =>
    \A i \in 1..Len(calc.result.regressions) :
      LET r == calc.result.regressions[i] IN
        /\ r.metric \in {"cost_usd", "session_duration_ms", "p95_tool_latency_ms"}
        /\ r.baselineValue = MetricOf(calc.args[1], r.metric)
        /\ r.compareValue = MetricOf(calc.args[2], r.metric)
        /\ r.baselineValue # NullNum
        /\ r.compareValue # NullNum
        /\ r.compareValue > r.baselineValue
        /\ r.baselineValue > 0

\* The cost rose by half and is the only flag, although the duration rose from
\* a baseline of 0 and the compare session has no P95 where the baseline has.
C25_Witness ==
  /\ calc.fn = "compareSessionSummaries"
  /\ calc.args[1].cost.totalCostUsd = 1000
  /\ calc.args[2].cost.totalCostUsd = 1500
  /\ calc.args[1].durationMs = 0
  /\ calc.args[2].durationMs = 1000
  /\ P95Of(calc.args[1]) = 1000
  /\ P95Of(calc.args[2]) = NullNum
  /\ Len(calc.result.regressions) = 1
  /\ calc.result.regressions[1].metric = "cost_usd"

\* ---------------------------------------------------------------- C26
\* Positions of all TOOL_END events with a tool name and a duration
AllQualifying ==
  {k \in 1..Len(events) : /\ events[k].event_type = "TOOL_END"
                          /\ events[k].tool_name # NullStr
                          /\ events[k].duration_ms # NullNum}

FirstOf(q, tool) ==
  CHOOSE k \in q : events[k].tool_name = tool
                   /\ \A j \in q : events[j].tool_name = tool => k <= j

\* A per-tool breakdown over the events at positions q: each group's error
\* count is the number of its events that carry an error message, at most its
\* call count, and the groups are in descending order of call count, groups
\* of equal count in the order in which their tools are first seen.
BreakdownOver(groups, q) ==
  /\ \A i \in 1..Len(groups) :
       /\ groups[i].errorCount =
            Cardinality({k \in q : /\ events[k].tool_name = groups[i].toolName
                                   /\ events[k].error_message # NullStr})
       /\ groups[i].errorCount <= groups[i].callCount
  /\ \A i \in 1..Len(groups), j \in 1..Len(groups) :
       i < j => /\ groups[i].callCount >= groups[j].callCount
                /\ groups[i].callCount = groups[j].callCount
                     => FirstOf(q, groups[i].toolName) < FirstOf(q, groups[j].toolName)

\* C26 (as claimed): the per-tool breakdown of every session's summary and the
\* global per-tool breakdown both give each tool errorCount / callCount with
\* the failed TOOL_END events as errors, ordered by descending call count with
\* ties in first-seen order.
C26_ErrorRatePerTool ==
  /\ BreakdownOver(computeToolLatencyStats(allToolDurations(Db)), AllQualifying)
  /\ \A sid \in 1..Len(sessions) :
       BreakdownOver(buildSessionSummary(Db, sid).toolBreakdown, Qualifying(sid))

\* ---------------------------------------------------------------- C27
\* The cost estimate of a session, as its summary and the budget check
\* compute it, before and after a step
CostBefore(sid) == computeCost(llmChars(Db, sid))

CostAfter(sid) == computeCost(llmChars(DbNext, sid))

\* C27 (as claimed): no record_event call lowers the total cost of any
\* session.
C27_Original ==
  [][(IsCall /\ last'.op = "record_event")
       => \A sid \in 1..Len(sessions) :
            CostAfter(sid).totalCostUsd >= CostBefore(sid).totalCostUsd]_vars

\* C27 (amended): a record_event call that leaves the pricing tier of a
\* session's dominant model as it was does not lower the session's total cost.
C27_CostNeverDecreasesWithinTier ==
  [][(IsCall /\ last'.op = "record_event")
       => \A sid \in 1..Len(sessions) :
            pricingFor(CostAfter(sid).modelUsed) = pricingFor(CostBefore(sid).modelUsed)
              => CostAfter(sid).totalCostUsd >= CostBefore(sid).totalCostUsd]_vars

\* An LLM_RESPONSE was recorded after an LLM_REQUEST of the same session, both
\* priced at the default tier, and the cost is that of the two together.
C27_Witness ==
  /\ last.op = "record_event"
  /\ last.kind = "recorded"
  /\ Len(events) >= 3
  /\ events[Len(events) - 1].event_type = "LLM_REQUEST"
  /\ events[Len(events) - 1].session_id = last.sid
  /\ events[Len(events)].event_type = "LLM_RESPONSE"
  /\ events[Len(events)].session_id = last.sid
  /\ computeCost(llmChars(Db, last.sid)).modelUsed = NullStr
  /\ computeCost(llmChars(Db, last.sid)).totalCostUsd = 135

\* ---------------------------------------------------------------- C28
\* C28 (as claimed): in every state the log of every session has exactly one
\* SESSION_START event, and if it has a SESSION_END event then the session's
\* ended_at is set and the event is the only one of its kind.
C28_OneLifecycleEventEach ==
  \A sid \in 1..Len(sessions) :
    /\ CountOf(sid, "SESSION_START") = 1
    /\ CountOf(sid, "SESSION_END") >= 1
         => Ended(sid) /\ CountOf(sid, "SESSION_END") = 1

\* ---------------------------------------------------------------- C29
\* C29 (as claimed): every event a step appends belongs to a session that was
\* not ended when the step began.
C29_NoEventAfterClose ==
  [][\A k \in (Len(events) + 1)..Len(events') :
       ~Ended(events'[k].session_id)]_vars

\* ---------------------------------------------------------------- C30
\* C30: in every session's summary the call counts of the per-tool breakdown
\* add up to the overall sample count, every entry's call count is its own
\* sample count and at least 1, every tool of the breakdown is one of the
\* unique tools, and the overall sample count is at most the tool call count.
C30_LatencyFiguresAgree ==
  \A sid \in 1..Len(sessions) :
    LET s == buildSessionSummary(Db, sid)
        tb == s.toolBreakdown
    IN /\ SumSeq([i \in 1..Len(tb) |-> tb[i].callCount]) = s.overallLatency.sampleCount
       /\ s.overallLatency.isNull => s.overallLatency.sampleCount = 0
       /\ \A i \in 1..Len(tb) :
            /\ tb[i].callCount = tb[i].stats.sampleCount
            /\ ~tb[i].stats.isNull
            /\ tb[i].callCount >= 1
            /\ tb[i].toolName \in SeqToSet(s.uniqueToolsUsed)
       /\ s.overallLatency.sampleCount <= s.toolCallCount

\* Two TOOL_END events of different tools, one of them without a duration,
\* beside an event of another kind that names a third tool.
C30_Witness ==
  \E sid \in 1..Len(sessions) :
    LET s == buildSessionSummary(Db, sid) IN
      /\ s.toolCallCount = 2
      /\ s.overallLatency.sampleCount = 1
      /\ Len(s.toolBreakdown) = 1
      /\ Len(s.uniqueToolsUsed) = 3

====
